---- MODULE Spec2Model ----
(***************************************************************************)
(* A model of nugget: the inbox staging state machine (nugget-inbox), the  *)
(* frontmatter codec (nugget-core/frontmatter.rs) and the helpers they     *)
(* use.  Text is modelled as a sequence of one-character strings; the      *)
(* file system as the set of files of the inbox directory, the set of      *)
(* files under the domain directories and the set of existing domain       *)
(* directories.                                                            *)
(***************************************************************************)
EXTENDS Integers, Sequences, FiniteSets, TLC

\* ---------------------------------------------------------------- bounds
MaxItems == 2
MaxTime == 2
MaxIdxLen == 2
MaxJunk == 1
TicksPerSec == 1
MaxBodyLen == 3
MaxLines == 4
MaxSlugBody == 4
DedupWindow == 1
MaxPathLen == 3

\* the cap of slug_from_body: first_line.chars().take(60)
SlugMaxChars == 60

\* confidences in tenths: default_confidence() of types.rs, Confidence::new(0.7) of
\* InboxItem::new
default_confidence == 8
NewItemConfidence == 7

\* ------------------------------------------------------------------ text
NL == "\n"

\* char::is_alphanumeric on the characters the model uses
Alnum == {"a", "b", "A", "B", "u", "n", "t", "i", "l", "e", "d", "7", "É", "é"}

is_alphanumeric(c) == c \in Alnum

to_ascii_lowercase(c) ==
  CASE c = "A" -> "a"
    [] c = "B" -> "b"
    [] OTHER -> c

RECURSIVE trim_start_matches_nl(_)
\* str::trim_start_matches('\n')
trim_start_matches_nl(s) ==
  IF s # <<>> /\ Head(s) = NL THEN trim_start_matches_nl(Tail(s)) ELSE s

RECURSIVE UpToNewline(_)
UpToNewline(s) ==
  IF s = <<>> \/ Head(s) = NL THEN <<>> ELSE <<Head(s)>> \o UpToNewline(Tail(s))

\* the text from 0-based offset k on
From(s, k) == SubSeq(s, k + 1, Len(s))

CR == "\r"

\* a line without the carriage return that stood before its newline
strip_cr(l) == IF l # <<>> /\ l[Len(l)] = CR THEN SubSeq(l, 1, Len(l) - 1) ELSE l

RECURSIVE Lines(_)
\* str::lines(): the text split at "\n" or "\r\n", the line endings left out, no
\* last empty line; a carriage return that ends the text stays
Lines(s) ==
  IF s = <<>> THEN <<>>
  ELSE LET l == UpToNewline(s)
       IN IF Len(l) = Len(s) THEN <<l>> ELSE <<strip_cr(l)>> \o Lines(From(s, Len(l) + 1))

\* body.lines().next().unwrap_or("untitled")
first_line(body) ==
  IF Lines(body) = <<>> THEN <<"u", "n", "t", "i", "t", "l", "e", "d">>
  ELSE Lines(body)[1]

Take(s, n) == IF Len(s) <= n THEN s ELSE SubSeq(s, 1, n)

RECURSIVE trim_start_hyphen(_)
trim_start_hyphen(s) ==
  IF s # <<>> /\ Head(s) = "-" THEN trim_start_hyphen(Tail(s)) ELSE s

RECURSIVE trim_end_hyphen(_)
trim_end_hyphen(s) ==
  IF s # <<>> /\ s[Len(s)] = "-" THEN trim_end_hyphen(SubSeq(s, 1, Len(s) - 1)) ELSE s

\* str::trim_matches('-')
trim_matches_hyphen(s) == trim_end_hyphen(trim_start_hyphen(s))

\* Utc::now().format("%Y%m%d-%H%M%S"): the clock at a resolution of one second
FormatSeconds(t) == t \div TicksPerSec

\* A file name stem: either text, or the fallback item-<timestamp>.
TextSlug(s) == [fallback |-> FALSE, text |-> s, ts |-> 0]

slug_from_body(body, t) ==
  LET line == Take(first_line(body), SlugMaxChars)
      mapped == [k \in 1..Len(line) |->
                   IF is_alphanumeric(line[k]) THEN to_ascii_lowercase(line[k]) ELSE "-"]
      slug == trim_matches_hyphen(mapped)
  IN IF slug = <<>>
     THEN [fallback |-> TRUE, text |-> <<"i", "t", "e", "m", "-">>, ts |-> FormatSeconds(t)]
     ELSE TextSlug(slug)

\* ------------------------------------------------------------ file model
Domains == {"general"}

\* Bodies a producer hands to InboxItem::new
Bodies == { <<"a">>, <<" ">> }

Ids == 1..MaxItems

\* Option<String> None of the source field
NoSource == <<>>

NoHeader == [id |-> 0, at |-> 0, dom |-> "none", src |-> NoSource]

\* inbox_filename: <captured_at to the second>-<first 8 characters of the id>.md
inbox_filename(item) == <<FormatSeconds(item.at), item.id>>

\* render_inbox_file: "---\n{yaml}---\n\n{body}\n"; text is what follows the
\* closing "\n---"
render_inbox_file(item) ==
  [name |-> inbox_filename(item), ext |-> "md", readable |-> TRUE, fenced |-> TRUE,
   yamlOk |-> TRUE,
   hdr |-> [id |-> item.id, at |-> item.at, dom |-> item.dom, src |-> item.src],
   text |-> <<NL, NL>> \o item.body \o <<NL>>]

\* a file of the inbox directory that was not written by add
JunkKinds == {"unreadable", "nofence", "badyaml", "notmd"}

JunkKinds_at(k) == <<"unreadable", "nofence", "badyaml", "notmd">>[k]

JunkFile(k, kind) ==
  [name |-> <<-1, k>>, ext |-> IF kind = "notmd" THEN "txt" ELSE "md",
   readable |-> kind # "unreadable", fenced |-> kind # "nofence",
   yamlOk |-> kind \notin {"badyaml", "nofence"}, hdr |-> NoHeader,
   text |-> <<NL, NL, "a", NL>>]

NoItem == [id |-> 0, at |-> 0, dom |-> "none", src |-> NoSource, body |-> <<>>]

NoEntry == [item |-> NoItem, path |-> <<0, 0>>]

NoDest == [dir |-> "none", name |-> TextSlug(<<>>)]

\* Inbox::split_frontmatter + read_inbox_file: Err when the file cannot be read,
\* has no frontmatter or its YAML does not decode
read_inbox_file_ok(f) == f.readable /\ f.fenced /\ f.yamlOk

\* the decoded item: the header's fields, the body with its leading newlines cut
read_inbox_file(f) ==
  [id |-> f.hdr.id, at |-> f.hdr.at, dom |-> f.hdr.dom, src |-> f.hdr.src,
   body |-> trim_start_matches_nl(f.text)]

RECURSIVE InsertByCapturedAt(_, _)
InsertByCapturedAt(e, s) ==
  IF s = <<>> THEN <<e>>
  ELSE IF e.item.at < Head(s).item.at THEN <<e>> \o s
  ELSE <<Head(s)>> \o InsertByCapturedAt(e, Tail(s))

\* list without its sort: the entries as read_dir gave them
sort_skipped(s) == s

RECURSIVE sort_by_captured_at(_)
\* entries.sort_by(|a, b| a.item.captured_at.cmp(&b.item.captured_at)): stable
sort_by_captured_at(s) ==
  IF s = <<>> THEN <<>>
  ELSE InsertByCapturedAt(s[Len(s)], sort_by_captured_at(SubSeq(s, 1, Len(s) - 1)))

\* the arm written with `?`: the error of one file ends the listing
on_malformed_abort(rest) == [ok |-> FALSE, es |-> <<>>]

\* list's arm for a file that read_inbox_file could not decode:
\* Err(e) => eprintln!("warning: skipping malformed inbox item ..."), the loop goes on
on_malformed(rest) == rest

RECURSIVE CollectEntries(_)
\* the loop of Inbox::list over the directory entries, in the order read_dir gives;
\* ok is FALSE when the loop returned an error instead of going on
CollectEntries(order) ==
  IF order = <<>> THEN [ok |-> TRUE, es |-> <<>>]
  ELSE LET f == Head(order)
           rest == CollectEntries(Tail(order))
       IN IF f.ext # "md" THEN rest
          ELSE IF read_inbox_file_ok(f)
               THEN [ok |-> rest.ok,
                     es |-> <<[item |-> read_inbox_file(f), path |-> f.name]>> \o rest.es]
               ELSE on_malformed(rest)

\* Inbox::list for one enumeration order of the directory
list(order) ==
  LET got == CollectEntries(order)
  IN [ok |-> got.ok, es |-> IF got.ok THEN sort_by_captured_at(got.es) ELSE <<>>]

RECURSIVE Orders(_)
\* every order in which read_dir may enumerate a set of files
Orders(files) ==
  IF files = {} THEN {<<>>}
  ELSE UNION {{<<f>> \o o : o \in Orders(files \ {f})} : f \in files}

\* fs::write: creates the file or replaces the one of that directory and name
write_file(files, f) ==
  {g \in files : ~(g.dir = f.dir /\ g.name = f.name)} \cup {f}

\* a remove that reports success and leaves the file
remove_file_kept(files, name) == files

\* fs::remove_file on the inbox directory
remove_file(files, name) == {g \in files : g.name # name}

file_exists(files, name) == \E g \in files : g.name = name

\* render_knowledge_file: "---\n{yaml}---\n\n{body}\n" under <domain>/<slug>.md
render_knowledge_file(item, dest) ==
  [dir |-> dest.dir, name |-> dest.name, id |-> item.id, dom |-> item.dom,
   text |-> <<NL, NL>> \o item.body \o <<NL>>]

RECURSIVE InsertAsc(_, _)
InsertAsc(x, s) ==
  IF s = <<>> THEN <<x>>
  ELSE IF x <= Head(s) THEN <<x>> \o s
  ELSE <<Head(s)>> \o InsertAsc(x, Tail(s))

RECURSIVE sort_unstable(_)
sort_unstable(s) == IF s = <<>> THEN <<>> ELSE InsertAsc(Head(s), sort_unstable(Tail(s)))

RECURSIVE dedup(_)
\* Vec::dedup: removes consecutive repeated elements
dedup(s) ==
  IF Len(s) <= 1 THEN s
  ELSE IF s[1] = s[2] THEN dedup(Tail(s))
  ELSE <<s[1]>> \o dedup(Tail(s))

Reverse(s) == [k \in 1..Len(s) |-> s[Len(s) + 1 - k]]

\* the rejection order without dedup(): a repeated index is rejected twice
rejection_order_repeating(indices) == Reverse(sort_unstable(indices))

\* sorted_indices.iter().rev() of reject_by_indices
rejection_order(indices) == Reverse(dedup(sort_unstable(indices)))

\* the index lists a caller may pass: 0 and one past the item count included
IndexLists == UNION {[1..n -> 0..(MaxItems + 1)] : n \in 0..MaxIdxLen}

\* ----------------------------------------------------------------- state
VARIABLES
  inbox,        \* the files of <root>/inbox
  store,        \* the files under the domain directories
  dirs,         \* the domain directories that exist
  now,          \* the clock, in ticks
  nextId,       \* the next fresh item id (Uuid::new_v4)
  junk,         \* how many foreign files were put into the inbox directory
  pc,           \* the position of the running call
  op,           \* the running call
  args,         \* the index list of the running call
  entries,      \* the listing the running call took
  todo,         \* the indices the running call has not processed yet
  cur,          \* the entry accept or reject is working on
  dest,         \* the destination accept computed
  result,       \* what the call returned
  readOrder,    \* the order in which read_dir gave the files to the call
  pre,          \* the file system when the call started
  delLog,       \* the inbox files the call removed, in order
  faulted,      \* whether an I/O fault was injected into the call
  unfinished,   \* ids whose accept wrote the filed copy and has not removed the pending file
  text,         \* codec: the serialized text
  unit,         \* codec: the record
  parsed,       \* codec: the result of parse
  phase,        \* codec: the step of the round trip
  trip,         \* the body of one item on its way through the inbox into the store
  mon,          \* ClipboardMonitor::run: its position, the running flag, last_seen
  procs,        \* the invocations that work on one inbox at the same time
  probe         \* a helper function applied to an input: its name, input and result

fsVars == <<inbox, store, dirs>>
envVars == <<now, nextId, junk>>
callVars == <<pc, op, args, entries, todo, cur, dest, result, readOrder, pre,
              delLog, faulted>>
histVars == <<unfinished>>
codecVars == <<text, unit, parsed, phase, trip, mon, procs, probe>>
vars == <<fsVars, envVars, callVars, histVars, codecVars>>

NoPre == [inbox |-> {}, store |-> {}, dirs |-> {}]

CallIdle ==
  /\ pc = "idle" /\ op = "none" /\ args = <<>> /\ entries = <<>> /\ todo = <<>>
  /\ cur = NoEntry /\ dest = NoDest /\ result = "none"
  /\ readOrder = <<>> /\ pre = NoPre /\ delLog = <<>> /\ faulted = FALSE

\* BrainStore::init has run: the inbox directory exists and is empty
InitInbox ==
  /\ inbox = {} /\ store = {} /\ dirs = {}
  /\ now = 0 /\ nextId = 1 /\ junk = 0
  /\ CallIdle
  /\ unfinished = {}

NoTrip == [step |-> "off", b |-> <<>>, listed |-> <<>>, filed |-> <<>>, readBack |-> <<>>]

NoProbe == [fn |-> "none"]

\* ClipboardMonitor::run is not called
NoRun ==
  [pc |-> "off", running |-> TRUE, last |-> <<>>, out |-> [kind |-> "none", url |-> <<>>],
   begun |-> 0, clearedAt |-> "none", result |-> "none"]

OthersIdle == mon = NoRun /\ procs = <<>>

HelpersIdle == trip = NoTrip /\ probe = NoProbe /\ OthersIdle

CodecIdle == text = <<>> /\ unit = [meta |-> "none", body |-> <<>>]
             /\ parsed = [ok |-> FALSE, err |-> "none", meta |-> "none", body |-> <<>>]
             /\ phase = "off"
             /\ HelpersIdle

Init == InitInbox /\ CodecIdle

\* ------------------------------------------------------ producers, clock
\* InboxItem::new followed by Inbox::add, as every producer does
add(body, dom) ==
  /\ pc = "idle" /\ nextId <= MaxItems /\ now < MaxTime
  /\ LET item == [id |-> nextId, at |-> now, dom |-> dom, src |-> NoSource, body |-> body]
     IN inbox' = (remove_file(inbox, inbox_filename(item)) \cup {render_inbox_file(item)})
  /\ nextId' = nextId + 1
  /\ now' = now + 1
  /\ UNCHANGED <<store, dirs, junk, callVars, histVars, codecVars>>

\* time passes between calls
Tick ==
  /\ pc = "idle" /\ now < MaxTime
  /\ now' = now + 1
  /\ UNCHANGED <<fsVars, nextId, junk, callVars, histVars, codecVars>>

\* something other than add leaves a file in the inbox directory
ForeignFile(kind) ==
  /\ pc = "idle" /\ junk < MaxJunk
  /\ inbox' = inbox \cup {JunkFile(junk + 1, kind)}
  /\ junk' = junk + 1
  /\ UNCHANGED <<store, dirs, now, nextId, callVars, histVars, codecVars>>

\* ------------------------------------------------------------ inbox calls
ClearCall ==
  /\ pc' = "idle" /\ op' = "none" /\ args' = <<>> /\ entries' = <<>> /\ todo' = <<>>
  /\ cur' = NoEntry /\ dest' = NoDest /\ result' = "none"
  /\ readOrder' = <<>> /\ pre' = NoPre /\ delLog' = <<>> /\ faulted' = FALSE

\* a call starts with Inbox::list; the file system is remembered for the frame conditions
Enter(o, a, order) ==
  /\ pc = "idle"
  /\ op' = o /\ args' = a
  /\ entries' = list(order).es
  /\ pre' = [inbox |-> inbox, store |-> store, dirs |-> dirs]
  /\ dest' = NoDest /\ delLog' = <<>> /\ faulted' = FALSE

IndexOutOfRange(idx, es) == idx = 0 \/ idx > Len(es)

\* let entries = self.list()?: the error of list is returned to the caller
ListFailed == pc' = "ret" /\ result' = "io" /\ todo' = <<>> /\ cur' = NoEntry

\* the head of the loop of accept_by_indices and of reject_by_indices over the
\* indices t that are left: return Ok after the last one, bail at an index out of
\* range, else go on to accept or reject the entry
LoopHead(t, es, body) ==
  IF t = <<>>
  THEN pc' = "ret" /\ result' = "ok" /\ todo' = <<>> /\ cur' = NoEntry
  ELSE IF IndexOutOfRange(Head(t), es)
       THEN pc' = "ret" /\ result' = "range" /\ todo' = t /\ cur' = NoEntry
       ELSE pc' = body /\ result' = "none" /\ todo' = Tail(t) /\ cur' = es[Head(t)]

\* Inbox::list called by a caller (cmd_inbox)
CallList(order) ==
  /\ Enter("list", <<>>, order)
  /\ readOrder' = order
  /\ IF list(order).ok
     THEN pc' = "ret" /\ result' = "ok" /\ todo' = <<>> /\ cur' = NoEntry
     ELSE ListFailed
  /\ UNCHANGED <<fsVars, envVars, histVars, codecVars>>

\* cmd_review: list, then the operator accepts or rejects a listed entry
CallReview(order) ==
  /\ Enter("review", <<>>, order)
  /\ IF ~list(order).ok
     THEN ListFailed
     ELSE /\ IF entries' = <<>>
             THEN pc' = "ret" /\ result' = "ok"
             ELSE pc' = "review" /\ result' = "none"
          /\ todo' = <<>> /\ cur' = NoEntry
  /\ UNCHANGED <<fsVars, envVars, readOrder, histVars, codecVars>>

Review(k, choice) ==
  /\ pc = "review" /\ k \in 1..Len(entries)
  /\ cur' = entries[k]
  /\ pc' = IF choice = "a" THEN "acc_mkdir" ELSE "rej_remove"
  /\ UNCHANGED <<fsVars, envVars, op, args, entries, todo, dest, result, readOrder, pre,
                 delLog, faulted, histVars, codecVars>>

\* Inbox::accept_by_indices: the listing, then the indices in the order given
accept_by_indices(indices, order) ==
  /\ Enter("accept_by_indices", indices, order)
  /\ IF list(order).ok THEN LoopHead(indices, entries', "acc_mkdir") ELSE ListFailed
  /\ UNCHANGED <<fsVars, envVars, readOrder, histVars, codecVars>>

\* Inbox::reject_by_indices: the listing, then the indices sorted, deduplicated, reversed
reject_by_indices(indices, order) ==
  /\ Enter("reject_by_indices", indices, order)
  /\ IF list(order).ok
     THEN LoopHead(rejection_order(indices), entries', "rej_remove")
     ELSE ListFailed
  /\ UNCHANGED <<fsVars, envVars, readOrder, histVars, codecVars>>

\* a file-system call of accept or reject returns Err: the call returns it with `?`
IoError == pc' = "ret" /\ result' = "io"

\* accept: fs::create_dir_all(&domain_dir)
AccMkdir(fail) ==
  /\ pc = "acc_mkdir"
  /\ IF fail
     THEN IoError /\ faulted' = TRUE /\ UNCHANGED dirs
     ELSE /\ dirs' = dirs \cup {cur.item.dom}
          /\ pc' = "acc_write" /\ UNCHANGED <<result, faulted>>
  /\ UNCHANGED <<inbox, store, envVars, op, args, entries, todo, cur, dest, readOrder,
                 pre, delLog, histVars, codecVars>>

\* the destination without the domain directory joined: beside the pending file
accept_dest_in_inbox(entry, t) ==
  [dir |-> "inbox", name |-> slug_from_body(entry.item.body, t)]

\* where accept files an entry: <root>/<suggested_domain>/<slug>.md
accept_dest(entry, t) == [dir |-> entry.item.dom, name |-> slug_from_body(entry.item.body, t)]

\* accept: slug_from_body, render_knowledge_file, fs::write(&dest, content)
AccWrite(fail) ==
  /\ pc = "acc_write"
  /\ IF fail
     THEN IoError /\ faulted' = TRUE /\ UNCHANGED <<store, dest, unfinished>>
     ELSE /\ dest' = accept_dest(cur, now)
          /\ store' = write_file(store, render_knowledge_file(cur.item, dest'))
          /\ unfinished' = unfinished \cup {cur.item.id}
          /\ pc' = "acc_remove" /\ UNCHANGED <<result, faulted>>
  /\ UNCHANGED <<inbox, dirs, envVars, op, args, entries, todo, cur, readOrder, pre,
                 delLog, codecVars>>

\* accept: fs::remove_file(&entry.path), then Ok(dest) to the caller or to the loop
AccRemove(fail) ==
  /\ pc = "acc_remove"
  /\ IF fail \/ ~file_exists(inbox, cur.path)
     THEN /\ IoError /\ faulted' = (faulted \/ file_exists(inbox, cur.path))
          /\ UNCHANGED <<inbox, delLog, unfinished, todo, cur>>
     ELSE /\ inbox' = remove_file(inbox, cur.path)
          /\ delLog' = Append(delLog, cur.path)
          /\ unfinished' = unfinished \ {cur.item.id}
          /\ IF op = "accept_by_indices"
             THEN LoopHead(todo, entries, "acc_mkdir")
             ELSE pc' = "ret" /\ result' = "ok" /\ UNCHANGED <<todo, cur>>
          /\ UNCHANGED faulted
  /\ UNCHANGED <<store, dirs, envVars, op, args, entries, dest, readOrder, pre, codecVars>>

\* reject: fs::remove_file(&entry.path), then Ok(()) to the caller or to the loop
RejRemove(fail) ==
  /\ pc = "rej_remove"
  /\ IF fail \/ ~file_exists(inbox, cur.path)
     THEN /\ IoError /\ faulted' = (faulted \/ file_exists(inbox, cur.path))
          /\ UNCHANGED <<inbox, delLog, todo, cur>>
     ELSE /\ inbox' = remove_file(inbox, cur.path)
          /\ delLog' = Append(delLog, cur.path)
          /\ IF op = "reject_by_indices"
             THEN LoopHead(todo, entries, "rej_remove")
             ELSE pc' = "ret" /\ result' = "ok" /\ UNCHANGED <<todo, cur>>
          /\ UNCHANGED faulted
  /\ UNCHANGED <<store, dirs, envVars, op, args, entries, dest, readOrder, pre,
                 histVars, codecVars>>

\* the caller takes the result (or leaves cmd_review); the call's locals are gone
Return ==
  /\ pc \in {"ret", "review"}
  /\ ClearCall
  /\ UNCHANGED <<fsVars, envVars, histVars, codecVars>>

\* the process stops in the middle of accept or reject; the file system stays as it is
Crash ==
  /\ pc \in {"acc_mkdir", "acc_write", "acc_remove", "rej_remove"}
  /\ ClearCall
  /\ UNCHANGED <<fsVars, envVars, histVars, codecVars>>

InboxCalls ==
  \/ \E o \in Orders(inbox) : CallReview(o)
  \/ \E ix \in IndexLists, o \in Orders(inbox) : accept_by_indices(ix, o)
  \/ \E ix \in IndexLists, o \in Orders(inbox) : reject_by_indices(ix, o)
  \/ \E k \in 1..MaxItems, c \in {"a", "r"} : Review(k, c)
  \/ \E fail \in BOOLEAN : AccMkdir(fail)
  \/ \E fail \in BOOLEAN : AccWrite(fail)
  \/ \E fail \in BOOLEAN : AccRemove(fail)
  \/ \E fail \in BOOLEAN : RejRemove(fail)
  \/ Return
  \/ Crash

\* the inbox under every call of its API, with I/O faults and process stops
Next ==
  \/ \E b \in Bodies, d \in Domains : add(b, d)
  \/ Tick
  \/ InboxCalls

Spec == Init /\ [][Next]_vars

\* the listing of an inbox directory that also holds files add did not write
NextList ==
  \/ \E b \in Bodies, d \in Domains : add(b, d)
  \/ Tick
  \/ \E kind \in JunkKinds : ForeignFile(kind)
  \/ \E o \in Orders(inbox) : CallList(o)
  \/ Return

SpecList == Init /\ [][NextList]_vars

\* --------------------------------------------------- accept after accept
\* bodies of captured items: some have the same slug
CapturedBodies == {<<"a">>, <<"A">>, <<"a", "!">>, <<"b">>, <<" ">>}

CapturedDomains == {"general", "coding"}

\* Inbox::accept of a listed entry, from create_dir_all to Ok(dest), with no
\* failure and nothing in between
AcceptEntry(order, k) ==
  /\ pc = "idle" /\ k \in DOMAIN list(order).es
  /\ LET entry == list(order).es[k]
     IN /\ dirs' = dirs \cup {entry.item.dom}
        /\ store' = write_file(store, render_knowledge_file(entry.item, accept_dest(entry, now)))
        /\ inbox' = remove_file(inbox, entry.path)
  /\ UNCHANGED <<envVars, callVars, histVars, codecVars>>

NextAccept ==
  \/ \E b \in CapturedBodies, d \in CapturedDomains : add(b, d)
  \/ Tick
  \/ \E order \in Orders(inbox), k \in 1..MaxItems : AcceptEntry(order, k)

SpecAccept == Init /\ [][NextAccept]_vars

\* ------------------------------------------ accept and reject of one entry at once
\* two invocations hold the same listed entry: one is in accept, one in reject
RaceStart(order, k) ==
  /\ pc = "idle" /\ procs = <<>> /\ k \in DOMAIN list(order).es
  /\ procs' = <<[op |-> "accept", at |-> "mkdir", entry |-> list(order).es[k], result |-> "none"],
                [op |-> "reject", at |-> "remove", entry |-> list(order).es[k], result |-> "none"]>>
  /\ UNCHANGED <<fsVars, envVars, callVars, histVars, text, unit, parsed, phase, trip,
                 mon, probe>>

ProcFrame == UNCHANGED <<envVars, callVars, histVars, text, unit, parsed, phase, trip, mon, probe>>

\* accept: fs::create_dir_all(&domain_dir)
ProcMkdir(i) ==
  /\ i \in DOMAIN procs /\ procs[i].at = "mkdir"
  /\ dirs' = dirs \cup {procs[i].entry.item.dom}
  /\ procs' = [procs EXCEPT ![i].at = "write"]
  /\ UNCHANGED <<inbox, store>> /\ ProcFrame

\* accept: slug_from_body, render_knowledge_file, fs::write(&dest, content)
ProcWrite(i) ==
  /\ i \in DOMAIN procs /\ procs[i].at = "write"
  /\ store' = write_file(store, render_knowledge_file(procs[i].entry.item,
                                                      accept_dest(procs[i].entry, now)))
  /\ procs' = [procs EXCEPT ![i].at = "remove"]
  /\ UNCHANGED <<inbox, dirs>> /\ ProcFrame

\* accept and reject: fs::remove_file(&entry.path); Err when the file is gone
ProcRemove(i) ==
  /\ i \in DOMAIN procs /\ procs[i].at = "remove"
  /\ IF file_exists(inbox, procs[i].entry.path)
     THEN /\ inbox' = remove_file(inbox, procs[i].entry.path)
          /\ procs' = [procs EXCEPT ![i].at = "done", ![i].result = "ok"]
     ELSE /\ procs' = [procs EXCEPT ![i].at = "done", ![i].result = "err"]
          /\ UNCHANGED inbox
  /\ UNCHANGED <<store, dirs>> /\ ProcFrame

NextRace ==
  \/ \E b \in CapturedBodies, d \in CapturedDomains : add(b, d)
  \/ \E order \in Orders(inbox), k \in 1..MaxItems : RaceStart(order, k)
  \/ \E i \in 1..2 : ProcMkdir(i)
  \/ \E i \in 1..2 : ProcWrite(i)
  \/ \E i \in 1..2 : ProcRemove(i)

SpecRace == Init /\ [][NextRace]_vars

\* ------------------------------------------------ the capture tools of the server
\* capture_url / capture_text: capture_from_url or capture_from_text builds the
\* item and calls inbox.add; added is the id of that item
CaptureAdd(body, dom) ==
  /\ pc = "idle" /\ procs = <<>> /\ nextId <= MaxItems /\ now < MaxTime
  /\ LET item == [id |-> nextId, at |-> now, dom |-> dom, src |-> NoSource, body |-> body]
     IN inbox' = (remove_file(inbox, inbox_filename(item)) \cup {render_inbox_file(item)})
  /\ procs' = <<[op |-> "capture", at |-> "added", added |-> nextId, item_id |-> 0]>>
  /\ nextId' = nextId + 1
  /\ now' = now + 1
  /\ UNCHANGED <<store, dirs, junk, callVars, histVars, text, unit, parsed, phase, trip,
                 mon, probe>>

\* entries.last().map(|e| e.item.id.clone()).unwrap_or_default()
last_item_id(es) == IF es = <<>> THEN 0 ELSE es[Len(es)].item.id

\* the read-back: inbox.list() and the id of its last entry
CaptureReadBack(order) ==
  /\ procs # <<>> /\ procs[1].op = "capture" /\ procs[1].at = "added"
  /\ procs' = [procs EXCEPT ![1].at = "done", ![1].item_id = last_item_id(list(order).es)]
  /\ UNCHANGED <<fsVars, envVars, callVars, histVars, text, unit, parsed, phase, trip,
                 mon, probe>>

\* another producer of the same inbox adds an item at any time
NextCapture ==
  \/ \E b \in CapturedBodies, d \in CapturedDomains : add(b, d)
  \/ \E b \in CapturedBodies, d \in CapturedDomains : CaptureAdd(b, d)
  \/ \E order \in Orders(inbox) : CaptureReadBack(order)

SpecCapture == Init /\ [][NextCapture]_vars

\* ----------------------------------------------------------------- codec
\* the characters of the texts the codec is run on
CodecChars == {"x", "-", NL}

Fence == <<"-", "-", "-">>

\* the header field sets of the records
Metas == {"m1", "m2"}

RECURSIVE TextsUpTo(_)
TextsUpTo(n) ==
  IF n = 0 THEN {<<>>}
  ELSE TextsUpTo(n - 1) \cup {Append(t, c) : t \in {u \in TextsUpTo(n - 1) : Len(u) = n - 1},
                                            c \in CodecChars}

\* serde_yaml_ng::to_string(unit): the header fields, one "key: value" line each,
\* every line ending in a newline and none starting with "---"
to_yaml(meta) == <<"i", "d", ":", meta, NL>>

\* the ways the last line of a YAML text may end: "\n", "\r\n", "\r", nothing
YamlBreaks == {<<NL>>, <<CR, NL>>, <<CR>>, <<>>}

\* the texts that decode to the record with fields meta
yaml_of(meta) == {<<"i", "d", ":", meta>> \o br : br \in YamlBreaks}

\* serde_yaml_ng::from_str(yaml): Err unless the text is the fields of a record
from_yaml_ok(yaml) == \E m \in Metas : yaml \in yaml_of(m)

from_yaml(yaml) == CHOOSE m \in Metas : yaml \in yaml_of(m)

starts_with(s, prefix) == Len(s) >= Len(prefix) /\ SubSeq(s, 1, Len(prefix)) = prefix

ends_with_nl(s) == s # <<>> /\ s[Len(s)] = NL

RECURSIVE find_nl(_, _)
\* str::find('\n') from offset k on: the 0-based offset, or -1 for None
find_nl(s, k) ==
  IF k >= Len(s) THEN -1
  ELSE IF s[k + 1] = NL THEN k
  ELSE find_nl(s, k + 1)

is_whitespace(c) == c \in {" ", NL, CR, "\t"}

RECURSIVE trim_start(_)
\* str::trim_start
trim_start(s) == IF s # <<>> /\ is_whitespace(Head(s)) THEN trim_start(Tail(s)) ELSE s

\* frontmatter::serialize
serialize(u) ==
  Fence \o <<NL>> \o to_yaml(u.meta) \o Fence \o <<NL>>
  \o (IF u.body # <<>>
      THEN <<NL>> \o u.body \o (IF ~ends_with_nl(u.body) THEN <<NL>> ELSE <<>>)
      ELSE <<>>)

RECURSIVE find_closing_fence_at(_, _)
\* the loop of find_closing_fence over content.lines(): offset grows by
\* line.len() + 1 for each line passed, whatever ended that line
find_closing_fence_at(lines, offset) ==
  IF lines = <<>> THEN -1
  ELSE IF starts_with(Head(lines), Fence) THEN offset
  ELSE find_closing_fence_at(Tail(lines), offset + Len(Head(lines)) + 1)

\* frontmatter::find_closing_fence: the offset of the closing fence, or -1 for None
find_closing_fence(content) == find_closing_fence_at(Lines(content), 0)

\* what follows the closing fence line, its leading newlines cut
body_after_fence(after_closing) ==
  IF find_nl(after_closing, 0) >= 0
  THEN trim_start_matches_nl(From(after_closing, find_nl(after_closing, 0) + 1))
  ELSE <<>>

\* frontmatter::split_frontmatter
split_frontmatter(input) ==
  LET trimmed == trim_start(input)
      rest == From(trimmed, 3)
      after_opening == From(rest, find_nl(rest, 0) + 1)
      closing_pos == find_closing_fence(after_opening)
  IN IF ~starts_with(trimmed, Fence) THEN [ok |-> FALSE, yaml |-> <<>>, body |-> <<>>]
     ELSE IF find_nl(rest, 0) < 0 THEN [ok |-> FALSE, yaml |-> <<>>, body |-> <<>>]
     ELSE IF closing_pos < 0 THEN [ok |-> FALSE, yaml |-> <<>>, body |-> <<>>]
     ELSE [ok |-> TRUE, yaml |-> SubSeq(after_opening, 1, closing_pos),
           body |-> body_after_fence(From(after_opening, closing_pos))]

\* frontmatter::parse
parse(input) ==
  LET sp == split_frontmatter(input)
  IN IF ~sp.ok THEN [ok |-> FALSE, err |-> "MissingFrontmatter", meta |-> "none", body |-> <<>>]
     ELSE IF ~from_yaml_ok(sp.yaml)
          THEN [ok |-> FALSE, err |-> "InvalidFrontmatter", meta |-> "none", body |-> <<>>]
          ELSE [ok |-> TRUE, err |-> "none", meta |-> from_yaml(sp.yaml), body |-> sp.body]

\* a record with valid fields is given to the codec
InitCodec ==
  /\ InitInbox
  /\ unit \in [meta : Metas, body : TextsUpTo(MaxBodyLen)]
  /\ text = <<>>
  /\ parsed = [ok |-> FALSE, err |-> "none", meta |-> "none", body |-> <<>>]
  /\ phase = "record"
  /\ HelpersIdle

Serialize ==
  /\ phase = "record"
  /\ text' = serialize(unit)
  /\ phase' = "text"
  /\ UNCHANGED <<fsVars, envVars, callVars, histVars, unit, parsed, trip, probe, mon, procs>>

Parse ==
  /\ phase = "text"
  /\ parsed' = parse(text)
  /\ phase' = "parsed"
  /\ UNCHANGED <<fsVars, envVars, callVars, histVars, unit, text, trip, probe, mon, procs>>

NextCodec == Serialize \/ Parse

SpecCodec == InitCodec /\ [][NextCodec]_vars

\* ------------------------------------------------------ parse on any text
\* the lines the texts given to parse are made of: fences, fences with something
\* before or after them, header fields, body text, empty lines, and lines that
\* end in "\r\n"
ParseLines ==
  {Fence, Fence \o <<"-">>, <<" ">> \o Fence, <<"i", "d", ":", "m1">>, <<"x">>, <<>>,
   Fence \o <<CR>>, <<"i", "d", ":", "m1", CR>>}

RECURSIVE LineSeqs(_)
LineSeqs(n) ==
  IF n = 0 THEN {<<>>}
  ELSE LineSeqs(n - 1) \cup {Append(q, l) : q \in {r \in LineSeqs(n - 1) : Len(r) = n - 1},
                                            l \in ParseLines}

RECURSIVE Join(_, _)
\* the lines with a newline between them, and one at the end when final
Join(q, final) ==
  IF q = <<>> THEN <<>>
  ELSE Head(q) \o (IF Len(q) > 1 \/ final THEN <<NL>> ELSE <<>>) \o Join(Tail(q), final)

ParseInputs == {Join(q, final) : q \in LineSeqs(MaxLines), final \in BOOLEAN}

\* parse is given any text
InitParse ==
  /\ InitInbox
  /\ HelpersIdle
  /\ unit = [meta |-> "none", body |-> <<>>]
  /\ text \in ParseInputs
  /\ parsed = [ok |-> FALSE, err |-> "none", meta |-> "none", body |-> <<>>]
  /\ phase = "text"

NextParse == Parse

SpecParse == InitParse /\ [][NextParse]_vars

\* a helper function was applied to the input: its result is kept
Probed(fn, out) ==
  /\ probe' = [fn |-> fn, arg |-> probe.arg, out |-> out]
  /\ UNCHANGED <<fsVars, envVars, callVars, histVars, text, unit, parsed, phase, trip, mon, procs>>

\* ------------------------------------------------- slug_from_body on any body
\* the characters of the bodies: letters of both cases, one of them not ASCII,
\* a space, a hyphen, a newline
SlugChars == {"a", "B", "É", " ", "-", NL}

RECURSIVE SlugTexts(_)
SlugTexts(n) ==
  IF n = 0 THEN {<<>>}
  ELSE SlugTexts(n - 1) \cup {Append(t, c) : t \in {u \in SlugTexts(n - 1) : Len(u) = n - 1},
                                            c \in SlugChars}

Rep(c, n) == [k \in 1..n |-> c]

\* short bodies, and the same followed by as many letters as the slug may have
SlugBodies == {t \o Rep("a", pad) : t \in SlugTexts(MaxSlugBody), pad \in {0, SlugMaxChars}}

InitSlug ==
  /\ InitInbox
  /\ text = <<>> /\ unit = [meta |-> "none", body |-> <<>>]
  /\ parsed = [ok |-> FALSE, err |-> "none", meta |-> "none", body |-> <<>>]
  /\ phase = "off"
  /\ trip = NoTrip /\ OthersIdle
  /\ probe \in {[fn |-> "body", arg |-> b] : b \in SlugBodies}

\* accept derives the file name from the body
SlugFromBody ==
  probe.fn = "body" /\ Probed("slug_from_body", slug_from_body(probe.arg, now))

NextSlug == SlugFromBody

SpecSlug == InitSlug /\ [][NextSlug]_vars

\* ------------------------------------------------ clipboard filter stages
\* str::len(): the length in bytes of UTF-8; the letters outside ASCII that the
\* model uses take two bytes
TwoByte == {"É", "é", "α", "β", "γ", "δ", "ε", "ζ", "η", "θ", "ι", "κ", "λ", "μ", "ν", "ξ",
            "ο", "π", "ρ", "σ", "τ", "υ", "φ", "χ", "ψ"}

RECURSIVE byte_len(_)
byte_len(t) ==
  IF t = <<>> THEN 0 ELSE (IF Head(t) \in TwoByte THEN 2 ELSE 1) + byte_len(Tail(t))

\* length_check: text.len() >= 20
MinLength == 20

length_check(t) == byte_len(t) >= MinLength

\* f64::log2 of 1..96 in thousandths
Log2Milli ==
  <<0, 1000, 1585, 2000, 2322, 2585, 2807, 3000, 3170, 3322,
    3459, 3585, 3700, 3807, 3907, 4000, 4087, 4170, 4248, 4322,
    4392, 4459, 4524, 4585, 4644, 4700, 4755, 4807, 4858, 4907,
    4954, 5000, 5044, 5087, 5129, 5170, 5209, 5248, 5285, 5322,
    5358, 5392, 5426, 5459, 5492, 5524, 5555, 5585, 5615, 5644,
    5672, 5700, 5728, 5755, 5781, 5807, 5833, 5858, 5883, 5907,
    5931, 5954, 5977, 6000, 6022, 6044, 6066, 6087, 6109, 6129,
    6150, 6170, 6190, 6209, 6229, 6248, 6267, 6285, 6304, 6322,
    6340, 6358, 6375, 6392, 6409, 6426, 6443, 6459, 6476, 6492,
    6508, 6524, 6539, 6555, 6570, 6585>>

\* how often c stands in t
Count(t, c) == Cardinality({k \in DOMAIN t : t[k] = c})

RECURSIVE SumLog(_, _)
\* the sum of count * log2(count) over the characters of the set cs, in thousandths
SumLog(t, cs) ==
  IF cs = {} THEN 0
  ELSE LET c == CHOOSE x \in cs : TRUE
       IN Count(t, c) * Log2Milli[Count(t, c)] + SumLog(t, cs \ {c})

\* shannon_entropy(text) * text.len(), in thousandths: the sum over the distinct
\* characters of -count * log2(count / len), len the length in bytes
shannon_entropy_times_len(t) ==
  IF t = <<>> THEN 0
  ELSE Len(t) * Log2Milli[byte_len(t)] - SumLog(t, {t[k] : k \in DOMAIN t})

\* the 4.5 of entropy_check, in thousandths
MaxEntropyMilli == 4500

\* entropy_check: true for a text with a space, else entropy <= 4.5
entropy_check(t) ==
  IF \E k \in DOMAIN t : t[k] = " " THEN TRUE
  ELSE shannon_entropy_times_len(t) <= MaxEntropyMilli * byte_len(t)

code_prefixes ==
  {<<"f", "n", " ">>, <<"d", "e", "f", " ">>, <<"c", "l", "a", "s", "s", " ">>, <<"i", "m", "p", "o", "r", "t", " ">>, <<"c", "o", "n", "s", "t", " ">>, <<"l", "e", "t", " ">>, <<"v", "a", "r", " ">>, <<"f", "u", "n", "c", "t", "i", "o", "n", " ">>}

Brackets == {"{", "}", "[", "]", "(", ")"}

\* code_detection: false for a line that starts, after its leading whitespace,
\* with a code keyword, and for bracket_count / total > 0.1
code_detection(t) ==
  IF \E k \in DOMAIN Lines(t) : \E prefix \in code_prefixes :
       starts_with(trim_start(Lines(t)[k]), prefix)
  THEN FALSE
  ELSE IF byte_len(t) = 0 THEN TRUE
  ELSE ~(10 * Cardinality({k \in DOMAIN t : t[k] \in Brackets}) > byte_len(t))

\* the characters the class of the URL pattern leaves out, as far as the model's
\* texts have them: whitespace, angle brackets, braces, square brackets, bar,
\* caret
UrlExcluded ==
  {" ", "\t", NL, CR, "<", ">", "{", "}", "|", "^", "[", "]"}

Https == <<"h", "t", "t", "p", "s", ":", "/", "/">>

Http == <<"h", "t", "t", "p", ":", "/", "/">>

RECURSIVE url_run(_)
\* [^...]+ : the longest run of characters of the class at the start of r
url_run(r) ==
  IF r = <<>> \/ Head(r) \in UrlExcluded THEN <<>> ELSE <<Head(r)>> \o url_run(Tail(r))

\* the match of https?://[^...]+ at the start of r, empty for none
url_match(r) ==
  LET scheme == IF starts_with(r, Https) THEN Https
                ELSE IF starts_with(r, Http) THEN Http ELSE <<>>
      run == url_run(From(r, Len(scheme)))
  IN IF scheme = <<>> \/ run = <<>> THEN <<>> ELSE scheme \o run

RECURSIVE extract_url(_)
\* extract_url: re.find(text), the leftmost match; empty for None
extract_url(t) ==
  IF t = <<>> THEN <<>>
  ELSE IF url_match(t) # <<>> THEN url_match(t)
  ELSE extract_url(Tail(t))

RECURSIVE UpTo(_, _)
\* str::split(c).next(): the text before the first c
UpTo(t, c) == IF t = <<>> \/ Head(t) = c THEN <<>> ELSE <<Head(t)>> \o UpTo(Tail(t), c)

ends_with(t, suffix) ==
  Len(t) >= Len(suffix) /\ SubSeq(t, Len(t) - Len(suffix) + 1, Len(t)) = suffix

\* extract_host: the text between the scheme and the first slash or colon; empty for
\* None (no scheme, or an empty host)
extract_host(url) ==
  IF starts_with(url, Https) THEN UpTo(UpTo(From(url, Len(Https)), "/"), ":")
  ELSE IF starts_with(url, Http) THEN UpTo(UpTo(From(url, Len(Http)), "/"), ":")
  ELSE <<>>

\* the test without the dot: any host that ends in the entry
host_matches_any_suffix(h, d) == h = d \/ ends_with(h, d)

\* the test of domain_filter for one entry d of the ignore list
host_matches(h, d) == h = d \/ ends_with(h, <<".">> \o d)

\* domain_filter: true when the URL is kept
domain_filter(url, ignore_domains) ==
  IF extract_host(url) = <<>> THEN TRUE
  ELSE ~(\E d \in ignore_domains : host_matches(extract_host(url), d))

\* ---------------------------------------------- the stages on any text
\* the pieces the clipboard texts are made of: a token of 24 and one of 22
\* different characters, 23 different two-byte letters, ten times a two-byte
\* letter, a short word, a URL, a line of code, nothing
TextParts ==
  {<<"a", "B", "3", "x", "K", "9", "p", "Q", "7", "m", "Z", "2", "w", "L", "5", "v", "N", "8", "r", "T", "4", "y", "H", "6">>,
   <<"a", "B", "3", "x", "K", "9", "p", "Q", "7", "m", "Z", "2", "w", "L", "5", "v", "N", "8", "r", "T", "4", "y">>,
   <<"α", "β", "γ", "δ", "ε", "ζ", "η", "θ", "ι", "κ", "λ", "μ", "ν", "ξ", "ο", "π", "ρ", "σ", "τ", "υ", "φ", "χ", "ψ">>,
   <<"é", "é", "é", "é", "é", "é", "é", "é", "é", "é">>,
   <<"h", "i">>,
   <<"h", "t", "t", "p", "s", ":", "/", "/", "a", ".", "i", "o", "/", "x">>,
   <<"f", "n", " ", "f", "(", ")", " ", "{", "}">>,
   <<>>}

\* what stands between two pieces
Separators == {<<>>, <<" ">>, <<"\t">>, <<NL>>}

StageTexts == {a \o sep \o b : a \in TextParts, sep \in Separators, b \in TextParts}

Hosts ==
  {<<"l", "o", "c", "a", "l", "h", "o", "s", "t">>,
   <<"x", ".", "l", "o", "c", "a", "l", "h", "o", "s", "t">>,
   <<"x", "l", "o", "c", "a", "l", "h", "o", "s", "t">>,
   <<"m", "a", "i", "l", ".", "g", "o", "o", "g", "l", "e", ".", "c", "o", "m">>,
   <<"d", "o", "c", "s", ".", "g", "o", "o", "g", "l", "e", ".", "c", "o", "m">>,
   <<"a", ".", "m", "a", "i", "l", ".", "g", "o", "o", "g", "l", "e", ".", "c", "o", "m">>,
   <<"g", "o", "o", "g", "l", "e", ".", "c", "o", "m">>,
   <<"c", "o", "m">>,
   <<"L", "O", "C", "A", "L", "H", "O", "S", "T">>,
   <<"l", "o", "c", "a", "l", "h", "o", "s", "t", ".">>,
   <<>>}

\* the entries an ignore list is made of (default_ignore_domains and a parent domain)
IgnoreEntries ==
  {<<"l", "o", "c", "a", "l", "h", "o", "s", "t">>,
   <<"m", "a", "i", "l", ".", "g", "o", "o", "g", "l", "e", ".", "c", "o", "m">>,
   <<"g", "o", "o", "g", "l", "e", ".", "c", "o", "m">>}

\* what follows the host in a URL
UrlTails == {<<>>, <<"/", "p">>, <<":", "8", "0", "/", "p">>}

StageUrls ==
  {[scheme |-> sc, host |-> h, tail |-> tl, ignore |-> ig] :
     sc \in {Https, Http}, h \in Hosts, tl \in UrlTails, ig \in SUBSET IgnoreEntries}

UrlOf(u) == u.scheme \o u.host \o u.tail

\* a text, or a URL with an ignore list, is there for a stage
InitStages ==
  /\ InitInbox
  /\ text = <<>> /\ unit = [meta |-> "none", body |-> <<>>]
  /\ parsed = [ok |-> FALSE, err |-> "none", meta |-> "none", body |-> <<>>]
  /\ phase = "off"
  /\ trip = NoTrip /\ OthersIdle
  /\ probe \in {[fn |-> "text", arg |-> t] : t \in StageTexts}
              \cup {[fn |-> "url", arg |-> u] : u \in StageUrls}

LengthCheck == probe.fn = "text" /\ Probed("length_check", length_check(probe.arg))

EntropyCheck == probe.fn = "text" /\ Probed("entropy_check", entropy_check(probe.arg))

CodeDetection == probe.fn = "text" /\ Probed("code_detection", code_detection(probe.arg))

ExtractUrl == probe.fn = "text" /\ Probed("extract_url", extract_url(probe.arg))

DomainFilter ==
  probe.fn = "url"
  /\ Probed("domain_filter", domain_filter(UrlOf(probe.arg), probe.arg.ignore))

NextStages == LengthCheck \/ EntropyCheck \/ CodeDetection \/ ExtractUrl \/ DomainFilter

SpecStages == InitStages /\ [][NextStages]_vars

\* ------------------------------------------ run_filter_pipeline and the monitor
\* default_ignore_domains
default_ignore_domains ==
  {<<"l", "o", "c", "a", "l", "h", "o", "s", "t">>,
   <<"m", "a", "i", "l", ".", "g", "o", "o", "g", "l", "e", ".", "c", "o", "m">>,
   <<"a", "c", "c", "o", "u", "n", "t", "s", ".", "g", "o", "o", "g", "l", "e", ".", "c", "o", "m">>}

\* what the clipboard holds: one text for each stage to reject, two with a URL
\* that is kept
ClipboardTexts ==
  {<<"h", "i", " ", "h", "t", "t", "p", "s", ":", "/", "/", "a", ".", "i", "o", "/", "x">>,
   <<"a", "B", "3", "x", "K", "9", "p", "Q", "7", "m", "Z", "2", "w", "L", "5", "v", "N", "8", "r", "T", "4", "y", "H", "6">>,
   <<"f", "n", " ", "f", "(", ")", " ", "{", " ", "h", "t", "t", "p", "s", ":", "/", "/", "a", ".", "i", "o", "/", "x", " ", "}">>,
   <<"j", "u", "s", "t", " ", "s", "o", "m", "e", " ", "w", "o", "r", "d", "s", " ", "a", "n", "d", " ", "m", "o", "r", "e">>,
   <<"s", "e", "e", " ", "h", "t", "t", "p", "s", ":", "/", "/", "m", "a", "i", "l", ".", "g", "o", "o", "g", "l", "e", ".", "c", "o", "m", "/", "x">>,
   <<"s", "e", "e", " ", "h", "t", "t", "p", "s", ":", "/", "/", "d", "o", "c", "s", ".", "g", "o", "o", "g", "l", "e", ".", "c", "o", "m", "/", "d">>,
   <<"s", "e", "e", " ", "h", "t", "t", "p", "s", ":", "/", "/", "a", ".", "i", "o", "/", "x", " ", "a", "n", "d", " ", "m", "o", "r", "e", " ", "t", "e", "x", "t">>}

\* dedup_check without its cutoff: a pending item of any age makes a duplicate
dedup_check_any_age(url, es, t) == ~(\E k \in DOMAIN es : es[k].item.src = url)

\* a dedup stage that finds no duplicate
dedup_check_off(url, es, t) == TRUE

\* dedup_check on the listed entries at time t: true when the URL is new.
\* DedupWindow is ChronoDuration::hours(24) in ticks of the clock
dedup_check(url, es, t) ==
  ~(\E k \in DOMAIN es : es[k].item.at > t - DedupWindow /\ es[k].item.src = url)

\* the stages in another order: the URL stages before the text stages
stage_order_url_first == <<"url", "domain", "dedup", "length", "entropy", "code">>

\* the stages of run_filter_pipeline from top to bottom
stage_order == <<"length", "entropy", "code", "url", "domain", "dedup">>

\* one stage of run_filter_pipeline: "pass", "reject" (return Ok(None)) or
\* "err" (the ? of dedup_check, when inbox.list() fails)
stage_verdict(stage, t, ignore, listing, at) ==
  LET url == extract_url(t)
      ok == CASE stage = "length" -> length_check(t)
              [] stage = "entropy" -> entropy_check(t)
              [] stage = "code" -> code_detection(t)
              [] stage = "url" -> url # <<>>
              [] stage = "domain" -> domain_filter(url, ignore)
              [] stage = "dedup" -> listing.ok /\ dedup_check(url, listing.es, at)
  IN IF stage = "dedup" /\ ~listing.ok THEN "err"
     ELSE IF ok THEN "pass" ELSE "reject"

NoOut == [kind |-> "none", url |-> <<>>]

RECURSIVE run_stages(_, _, _, _, _)
\* the chain of if .. return: the stages that were evaluated and what is returned
run_stages(stages, t, ignore, listing, at) ==
  IF stages = <<>> THEN [ran |-> <<>>, out |-> [kind |-> "some", url |-> extract_url(t)]]
  ELSE LET v == stage_verdict(Head(stages), t, ignore, listing, at)
           rest == run_stages(Tail(stages), t, ignore, listing, at)
       IN IF v = "pass" THEN [ran |-> <<Head(stages)>> \o rest.ran, out |-> rest.out]
          ELSE [ran |-> <<Head(stages)>>,
                out |-> [kind |-> IF v = "err" THEN "err" ELSE "none", url |-> <<>>]]

run_filter_pipeline(t, ignore, listing, at) == run_stages(stage_order, t, ignore, listing, at)

\* the monitor between two polls; last is last_seen
Polling(last) ==
  [fn |-> "poll", arg |-> <<>>, out |-> NoOut, ran |-> <<>>, listed |-> FALSE,
   io |-> FALSE, at |-> 0, pre |-> {}, last |-> last]

InitFilter ==
  /\ InitInbox
  /\ text = <<>> /\ unit = [meta |-> "none", body |-> <<>>]
  /\ parsed = [ok |-> FALSE, err |-> "none", meta |-> "none", body |-> <<>>]
  /\ phase = "off"
  /\ trip = NoTrip /\ OthersIdle
  /\ probe = Polling(<<>>)

\* ClipboardMonitor::run: the clipboard holds a text other than last_seen and
\* run_filter_pipeline is called on it; io: read_dir of inbox.list() fails
RunFilterPipeline(t, order, io) ==
  /\ probe.fn = "poll" /\ t # probe.last
  /\ LET listing == IF io THEN [ok |-> FALSE, es |-> <<>>] ELSE list(order)
         r == run_filter_pipeline(t, default_ignore_domains, listing, now)
     IN probe' = [fn |-> "pipeline", arg |-> t, out |-> r.out, ran |-> r.ran,
                  listed |-> \E k \in DOMAIN r.ran : r.ran[k] = "dedup",
                  io |-> io, at |-> now, pre |-> inbox, last |-> t]
  /\ UNCHANGED <<fsVars, envVars, callVars, histVars, text, unit, parsed, phase, trip, mon, procs>>

\* ClipboardMonitor::run, Ok(Some(url)): the item is built and inbox.add writes it
MonitorAdd ==
  /\ probe.fn = "pipeline" /\ probe.out.kind = "some" /\ nextId <= MaxItems
  /\ LET item == [id |-> nextId, at |-> now, dom |-> "inbox", src |-> probe.out.url,
                  body |-> probe.out.url]
     IN inbox' = (remove_file(inbox, inbox_filename(item)) \cup {render_inbox_file(item)})
  /\ nextId' = nextId + 1
  /\ probe' = Polling(probe.last)
  /\ UNCHANGED <<store, dirs, now, junk, callVars, histVars, text, unit, parsed, phase, trip, mon, procs>>

\* ClipboardMonitor::run, Ok(None), Err(e), or inbox.add returned Err: nothing
\* is written and the loop goes on
MonitorSkip ==
  /\ probe.fn = "pipeline"
  /\ probe' = Polling(probe.last)
  /\ UNCHANGED <<fsVars, envVars, callVars, histVars, text, unit, parsed, phase, trip, mon, procs>>

NextFilter ==
  \/ \E t \in ClipboardTexts, order \in Orders(inbox), io \in BOOLEAN :
       RunFilterPipeline(t, order, io)
  \/ MonitorAdd
  \/ MonitorSkip
  \/ Tick

SpecFilter == InitFilter /\ [][NextFilter]_vars

\* ------------------------------------------------ ClipboardMonitor::run, the loop
\* a loop whose condition does not read the flag
loop_forever(flag) == TRUE

\* while self.running.load(Ordering::Relaxed)
loop_condition(flag) == flag

\* ClipboardMonitor::new sets the flag; run is at the head of its loop
InitRun ==
  /\ InitInbox
  /\ text = <<>> /\ unit = [meta |-> "none", body |-> <<>>]
  /\ parsed = [ok |-> FALSE, err |-> "none", meta |-> "none", body |-> <<>>]
  /\ phase = "off"
  /\ trip = NoTrip /\ probe = NoProbe /\ procs = <<>>
  /\ mon = [NoRun EXCEPT !.pc = "while"]

MonitorStep(m) ==
  /\ mon' = m
  /\ UNCHANGED <<fsVars, envVars, callVars, histVars, text, unit, parsed, phase, trip,
                 probe, procs>>

\* the head of the loop: the flag is read once; false ends the loop and run
\* returns Ok(()). begun counts the iterations begun with the flag cleared
RunWhile ==
  /\ mon.pc = "while"
  /\ IF loop_condition(mon.running)
     THEN MonitorStep([mon EXCEPT !.pc = "sleep",
                                  !.begun = IF mon.running THEN @ ELSE 1])
     ELSE MonitorStep([mon EXCEPT !.pc = "returned", !.result = "ok"])

\* thread::sleep(interval)
RunSleep ==
  /\ mon.pc = "sleep"
  /\ MonitorStep([mon EXCEPT !.pc = "poll"])

\* clipboard.get_text() fails, or gives the text of last_seen: continue
RunContinue ==
  /\ mon.pc = "poll"
  /\ MonitorStep([mon EXCEPT !.pc = "while"])

\* clipboard.get_text() gives a new text: last_seen is set and
\* run_filter_pipeline is called on it
RunPipeline(t, order, io) ==
  /\ mon.pc = "poll" /\ t # mon.last
  /\ LET listing == IF io THEN [ok |-> FALSE, es |-> <<>>] ELSE list(order)
     IN MonitorStep([mon EXCEPT !.pc = "match", !.last = t,
          !.out = run_filter_pipeline(t, default_ignore_domains, listing, now).out])

\* the match on the result: Ok(Some(url)) builds the item and calls inbox.add
\* (ok: add succeeded); Ok(None) and Err(e) do nothing; the iteration ends
RunMatch(ok) ==
  /\ mon.pc = "match"
  /\ mon' = [mon EXCEPT !.pc = "while", !.out = NoOut]
  /\ IF mon.out.kind = "some" /\ ok /\ nextId <= MaxItems
     THEN LET item == [id |-> nextId, at |-> now, dom |-> "inbox", src |-> mon.out.url,
                       body |-> mon.out.url]
          IN /\ inbox' = (remove_file(inbox, inbox_filename(item))
                            \cup {render_inbox_file(item)})
             /\ nextId' = nextId + 1
     ELSE UNCHANGED <<inbox, nextId>>
  /\ UNCHANGED <<store, dirs, now, junk, callVars, histVars, text, unit, parsed, phase,
                 trip, probe, procs>>

\* the holder of running_flag() clears the flag while run is running
StopFlag ==
  /\ mon.pc \notin {"off", "returned"} /\ mon.running
  /\ MonitorStep([mon EXCEPT !.running = FALSE, !.clearedAt = mon.pc])

RunSteps ==
  \/ RunWhile
  \/ RunSleep
  \/ RunContinue
  \/ \E t \in ClipboardTexts, order \in Orders(inbox), io \in BOOLEAN : RunPipeline(t, order, io)
  \/ \E ok \in BOOLEAN : RunMatch(ok)

NextRun == RunSteps \/ StopFlag

\* sleep, get_text and the file-system calls of an iteration return: the loop
\* goes on as long as it has a step to take
SpecRun == InitRun /\ [][NextRun]_vars /\ WF_vars(RunSteps)

\* --------------------------------------------- the read_knowledge tool of the server
\* a directory tree around the store: the directories, files and symbolic
\* links by their canonical path (the sequence of their components)
FsDirs == {<<>>, <<"brain">>, <<"brain", "coding">>, <<"etc">>, <<"brain2">>}

FsFiles == {<<"brain", "coding", "a.md">>, <<"etc", "s.md">>, <<"brain2", "a.md">>}

\* the symbolic links and the canonical path each points to: one to the store
\* root, one out of the store, one inside it
FsLinks ==
  {[at |-> <<"b">>, to |-> <<"brain">>],
   [at |-> <<"brain", "out">>, to |-> <<"etc">>],
   [at |-> <<"brain", "in">>, to |-> <<"brain", "coding">>]}

\* BrainStore.root as the server was given it: through a symbolic link
StoreRoot == [abs |-> TRUE, comps |-> <<"b">>]

PathComponents == {"..", "coding", "a.md", "out", "in", "s.md", "etc", "brain", "brain2", "b"}

RECURSIVE SeqsUpTo(_, _)
SeqsUpTo(S, n) ==
  IF n = 0 THEN {<<>>}
  ELSE SeqsUpTo(S, n - 1) \cup {<<c>> \o q : c \in S, q \in {r \in SeqsUpTo(S, n - 1) : Len(r) = n - 1}}

\* input.path: relative or absolute
RequestedPaths ==
  {[abs |-> a, comps |-> q] : a \in BOOLEAN, q \in SeqsUpTo(PathComponents, MaxPathLen)}

\* Path::join: an absolute argument replaces the base
path_join(base, p) == IF p.abs THEN p ELSE [abs |-> TRUE, comps |-> base.comps \o p.comps]

RECURSIVE resolve(_, _)
\* fs::canonicalize from the directory here over the components rest: ".." goes
\* to the parent, a link is followed, a missing entry or a step through a file
\* is an error
resolve(here, rest) ==
  IF rest = <<>> THEN [ok |-> TRUE, p |-> here]
  ELSE IF here \notin FsDirs THEN [ok |-> FALSE, p |-> <<>>]
  ELSE IF Head(rest) = ".."
       THEN resolve(IF here = <<>> THEN <<>> ELSE SubSeq(here, 1, Len(here) - 1), Tail(rest))
  ELSE LET n == here \o <<Head(rest)>>
       IN IF \E l \in FsLinks : l.at = n
          THEN resolve((CHOOSE l \in FsLinks : l.at = n).to, Tail(rest))
          ELSE IF n \in FsDirs \cup FsFiles THEN resolve(n, Tail(rest))
          ELSE [ok |-> FALSE, p |-> <<>>]

canonicalize(p) == resolve(<<>>, p.comps)

\* a guard that lets every path through
path_starts_with_anything(p, base) == TRUE

\* Path::starts_with: whole components
path_starts_with(p, base) == Len(p) >= Len(base) /\ SubSeq(p, 1, Len(base)) = base

NothingRead == [ok |-> FALSE, err |-> "none", read |-> <<>>]

\* NuggetServer::read_knowledge: read is the canonical path of the file whose
\* content is returned
mcp_read_knowledge(path) ==
  LET canonical == canonicalize(path_join(StoreRoot, path))
      root_canonical == canonicalize(StoreRoot)
  IN IF ~canonical.ok THEN [NothingRead EXCEPT !.err = "invalid path"]
     ELSE IF ~root_canonical.ok THEN [NothingRead EXCEPT !.err = "cannot resolve brain root"]
     ELSE IF ~path_starts_with(canonical.p, root_canonical.p)
          THEN [NothingRead EXCEPT !.err = "path traversal denied"]
     ELSE IF canonical.p \notin FsFiles THEN [NothingRead EXCEPT !.err = "read failed"]
     ELSE [ok |-> TRUE, err |-> "none", read |-> canonical.p]

InitMcpRead ==
  /\ InitInbox
  /\ text = <<>> /\ unit = [meta |-> "none", body |-> <<>>]
  /\ parsed = [ok |-> FALSE, err |-> "none", meta |-> "none", body |-> <<>>]
  /\ phase = "off"
  /\ trip = NoTrip /\ OthersIdle
  /\ probe \in {[fn |-> "path", arg |-> p] : p \in RequestedPaths}

McpReadKnowledge == probe.fn = "path" /\ Probed("read_knowledge", mcp_read_knowledge(probe.arg))

NextMcpRead == McpReadKnowledge

SpecMcpRead == InitMcpRead /\ [][NextMcpRead]_vars

\* ------------------------------------------- listing and counting over a directory
\* the files a directory may hold: two decodable units and one file of each
\* kind that is not
DirFiles ==
  {render_inbox_file([id |-> i, at |-> i, dom |-> "general", src |-> NoSource, body |-> <<"a">>])
     : i \in 1..2}
    \cup {JunkFile(k, JunkKinds_at(k)) : k \in 1..4}

Directories == SUBSET DirFiles

\* the file is a markdown file that reads and decodes
decodes(f) == f.ext = "md" /\ read_inbox_file_ok(f)

\* BrainStore::list_knowledge: the ids of the summaries
list_knowledge(files) == {f.hdr.id : f \in {g \in files : decodes(g)}}

\* BrainStore::count_knowledge: the entries of the walk with the extension md
count_knowledge(files) == Cardinality({f \in files : f.ext = "md"})

\* brain::walk_knowledge_files
walk_knowledge_files(files) == {f \in files : f.ext = "md"}

\* file::read_all_units: the ids of the units read_unit returned
read_all_units(files) == {f.hdr.id : f \in {g \in walk_knowledge_files(files) : decodes(g)}}

InitListing ==
  /\ InitInbox
  /\ text = <<>> /\ unit = [meta |-> "none", body |-> <<>>]
  /\ parsed = [ok |-> FALSE, err |-> "none", meta |-> "none", body |-> <<>>]
  /\ phase = "off"
  /\ trip = NoTrip /\ OthersIdle
  /\ probe \in {[fn |-> "dir", arg |-> d] : d \in Directories}

InboxList(order) == probe.fn = "dir" /\ Probed("list", list(order).es)

ListKnowledge == probe.fn = "dir" /\ Probed("list_knowledge", list_knowledge(probe.arg))

CountKnowledge == probe.fn = "dir" /\ Probed("count_knowledge", count_knowledge(probe.arg))

ReadAllUnits == probe.fn = "dir" /\ Probed("read_all_units", read_all_units(probe.arg))

NextListing ==
  \/ \E order \in Orders(probe.arg) : InboxList(order)
  \/ ListKnowledge
  \/ CountKnowledge
  \/ ReadAllUnits

SpecListing == InitListing /\ [][NextListing]_vars

\* ------------------------------------------------- where accept writes
\* the store root of the inbox: a directory, given by its canonical path
BrainRoot == [abs |-> TRUE, comps |-> <<"brain">>]

\* suggested_domain as a producer may give it: capture_from_text and the
\* capture tools take the string of the caller as it is
SuggestedDomains ==
  {[abs |-> a, comps |-> q] :
     a \in BOOLEAN, q \in SeqsUpTo({"..", "general", "inbox", "etc"}, MaxPathLen)}

RECURSIVE walk_created(_, _)
\* the directory fs::create_dir_all ends in, from the directory here over the
\* components rest: ".." is the parent, a name is the directory of that name,
\* created where it is missing
walk_created(here, rest) ==
  IF rest = <<>> THEN here
  ELSE IF Head(rest) = ".."
       THEN walk_created(IF here = <<>> THEN <<>> ELSE SubSeq(here, 1, Len(here) - 1), Tail(rest))
  ELSE walk_created(here \o <<Head(rest)>>, Tail(rest))

\* accept: domain_dir = self.store.root.join(&domain.0), create_dir_all, and
\* dest = domain_dir.join("<slug>.md"); the directory the file is written in
accept_domain_dir(domain) == walk_created(<<>>, path_join(BrainRoot, domain).comps)

InitDest ==
  /\ InitInbox
  /\ text = <<>> /\ unit = [meta |-> "none", body |-> <<>>]
  /\ parsed = [ok |-> FALSE, err |-> "none", meta |-> "none", body |-> <<>>]
  /\ phase = "off"
  /\ trip = NoTrip /\ OthersIdle
  /\ probe \in {[fn |-> "domain", arg |-> d] : d \in SuggestedDomains}

AcceptInto == probe.fn = "domain" /\ Probed("accept", accept_domain_dir(probe.arg))

NextDest == AcceptInto

SpecDest == InitDest /\ [][NextDest]_vars

\* ------------------------------------------------------ decoding of headers
\* the header fields a file may leave out
Optional == {"tags", "related", "confidence"}

\* the headers given to the decoders: id, type and the other required fields are
\* there; tags, related and confidence are there (has) or not
Headers ==
  {h \in [has : SUBSET Optional, tags : {<<>>, <<"t">>}, related : {<<>>, <<"r">>},
          confidence : {0, 5}] :
     /\ "tags" \notin h.has => h.tags = <<>>
     /\ "related" \notin h.has => h.related = <<>>
     /\ "confidence" \notin h.has => h.confidence = 0}

Absent(h, field) == field \notin h.has

DecodeErr == [ok |-> FALSE, tags |-> <<>>, related |-> <<>>, confidence |-> 0]

\* serde's Deserialize of types.rs KnowledgeUnit (the record frontmatter::parse
\* decodes): tags, related #[serde(default)], confidence default_confidence
decode_types_KnowledgeUnit(h) ==
  [ok |-> TRUE,
   tags |-> IF Absent(h, "tags") THEN <<>> ELSE h.tags,
   related |-> IF Absent(h, "related") THEN <<>> ELSE h.related,
   confidence |-> IF Absent(h, "confidence") THEN default_confidence ELSE h.confidence]

\* serde's Deserialize of lib.rs KnowledgeUnit (the record read_knowledge decodes):
\* only source and related carry #[serde(default)]; a missing tags or confidence
\* is a "missing field" error
decode_KnowledgeUnit(h) ==
  IF Absent(h, "tags") \/ Absent(h, "confidence") THEN DecodeErr
  ELSE [ok |-> TRUE, tags |-> h.tags,
        related |-> IF Absent(h, "related") THEN <<>> ELSE h.related,
        confidence |-> h.confidence]

\* serde's Deserialize of lib.rs InboxItem (the record read_inbox_file decodes):
\* tags and confidence carry no default
decode_InboxItem(h) ==
  IF Absent(h, "tags") \/ Absent(h, "confidence") THEN DecodeErr
  ELSE [ok |-> TRUE, tags |-> h.tags,
        related |-> IF Absent(h, "related") THEN <<>> ELSE h.related,
        confidence |-> h.confidence]

\* a file with some header is there to be decoded
InitDecode ==
  /\ InitInbox
  /\ text = <<>> /\ unit = [meta |-> "none", body |-> <<>>]
  /\ parsed = [ok |-> FALSE, err |-> "none", meta |-> "none", body |-> <<>>]
  /\ phase = "off"
  /\ trip = NoTrip /\ OthersIdle
  /\ probe \in {[fn |-> "header", arg |-> h] : h \in Headers}

\* frontmatter::parse decodes the header
DecodeParse ==
  probe.fn = "header" /\ Probed("parse", decode_types_KnowledgeUnit(probe.arg))

\* BrainStore::read_knowledge decodes the header
DecodeReadKnowledge ==
  probe.fn = "header" /\ Probed("read_knowledge", decode_KnowledgeUnit(probe.arg))

\* Inbox::read_inbox_file decodes the header
DecodeReadInboxFile ==
  probe.fn = "header" /\ Probed("read_inbox_file", decode_InboxItem(probe.arg))

NextDecode == DecodeParse \/ DecodeReadKnowledge \/ DecodeReadInboxFile

SpecDecode == InitDecode /\ [][NextDecode]_vars

\* ------------------------------------------------- the body's way to the store
\* BrainStore::read_knowledge with the store's split_frontmatter: the header's
\* fields, the body with its leading newlines cut
read_knowledge(g) == [id |-> g.id, dom |-> g.dom, body |-> trim_start_matches_nl(g.text)]

TripItem(body) == [id |-> 1, at |-> 0, dom |-> "general", src |-> NoSource, body |-> body]

\* a producer has made an item with body b
InitTrip ==
  /\ InitInbox
  /\ text = <<>> /\ unit = [meta |-> "none", body |-> <<>>]
  /\ parsed = [ok |-> FALSE, err |-> "none", meta |-> "none", body |-> <<>>]
  /\ phase = "off"
  /\ probe = NoProbe
  /\ trip \in {[NoTrip EXCEPT !.step = "item", !.b = b] : b \in TextsUpTo(MaxBodyLen)}
  /\ OthersIdle

\* Inbox::add writes the pending file, Inbox::list reads it
TripAddList ==
  /\ trip.step = "item"
  /\ trip' = [trip EXCEPT !.step = "listed",
                          !.listed = read_inbox_file(render_inbox_file(TripItem(trip.b))).body]
  /\ UNCHANGED <<fsVars, envVars, callVars, histVars, text, unit, parsed, phase, probe,
                 mon, procs>>

\* Inbox::accept writes the listed item as a filed unit
TripAccept ==
  /\ trip.step = "listed"
  /\ trip' = [trip EXCEPT !.step = "filed",
                          !.filed = render_knowledge_file(TripItem(trip.listed),
                                                          accept_dest([item |-> TripItem(trip.listed)], 0)).text]
  /\ UNCHANGED <<fsVars, envVars, callVars, histVars, text, unit, parsed, phase, probe,
                 mon, procs>>

\* BrainStore::read_knowledge reads the filed unit back
TripRead ==
  /\ trip.step = "filed"
  /\ trip' = [trip EXCEPT !.step = "read",
                          !.readBack = read_knowledge([id |-> 1, dom |-> "general",
                                                       text |-> trip.filed]).body]
  /\ UNCHANGED <<fsVars, envVars, callVars, histVars, text, unit, parsed, phase, probe,
                 mon, procs>>

NextTrip == TripAddList \/ TripAccept \/ TripRead

SpecTrip == InitTrip /\ [][NextTrip]_vars

\* ================================================================ claims
Pending(i) == \E f \in inbox : f.hdr.id = i

Filed(i) == \E g \in store : g.id = i

Range(q) == {q[k] : k \in DOMAIN q}

HasBadIndex(ix, es) == \E k \in DOMAIN ix : IndexOutOfRange(ix[k], es)

\* accept(entry) returns Ok(dest) in this step: its remove_file went through
AcceptReturnsOk == pc = "acc_remove" /\ delLog' = Append(delLog, cur.path)

\* reject(entry) returns Ok(()) in this step
RejectReturnsOk == pc = "rej_remove" /\ delLog' = Append(delLog, cur.path)

\* C1, as stated: in every reachable state, the states between the file-system
\* steps of accept and the states a failed step leaves included, no item id has
\* both a pending file in the inbox and a filed file in a domain directory.
C1_NeverPendingAndFiled == \A i \in Ids : ~(Pending(i) /\ Filed(i))

\* C1, amended: an item id has both a pending file and a filed file only while
\* an accept of it has written the filed copy and no accept has yet removed the
\* pending file (the accept is between its write and its remove, or it ended
\* there: the remove failed or the process stopped).
C1_PendingAndFiledOnlyInWindow ==
  \A i \in Ids : (Pending(i) /\ Filed(i)) => i \in unfinished

\* C1 witness: a call has ended and left an item both pending and filed.
C1_Witness == pc = "idle" /\ \E i \in Ids : Pending(i) /\ Filed(i) /\ i \in unfinished

\* C2: accept_by_indices with an index list holding an index that is 0 or
\* greater than the number of listed items returns the out-of-range error and
\* leaves the inbox and the domain directories as they were at the call,
\* wherever the bad index stands in the list.
C2_BadIndexLeavesAllUnchanged ==
  (op = "accept_by_indices" /\ HasBadIndex(args, entries) /\ ~faulted)
    => /\ inbox = pre.inbox /\ store = pre.store /\ dirs = pre.dirs
       /\ (pc = "ret" => result = "range")

\* C3: reject_by_indices with an index list holding an index that is 0 or
\* greater than the number of listed items returns the out-of-range error and
\* deletes no pending file, whatever valid indices the list holds besides.
C3_BadIndexDeletesNothing ==
  (op = "reject_by_indices" /\ HasBadIndex(args, entries) /\ ~faulted)
    => /\ inbox = pre.inbox
       /\ (pc = "ret" => result = "range")

\* C4: an item that was accepted or rejected (its pending file is gone) is never
\* written to the store again, and no later accept or reject of it returns Ok.
C4_OneTransitionPerItem ==
  [][\A i \in Ids :
       (i < nextId /\ ~Pending(i) /\ cur.item.id = i)
         => /\ ~(pc = "acc_write" /\ pc' = "acc_remove")
            /\ ~AcceptReturnsOk /\ ~RejectReturnsOk]_vars

\* C5: whatever the order in which the directory is enumerated, list returns
\* the entries in ascending captured_at order, which is the order of their adds.
C5_ListedOldestFirst ==
  (op = "list" /\ pc = "ret")
    => \A j, k \in DOMAIN entries :
         j < k => /\ entries[j].item.at < entries[k].item.at
                  /\ entries[j].item.id < entries[k].item.id

\* C5 witness: list returned two or more entries that read_dir gave newest first.
C5_Witness ==
  /\ op = "list" /\ pc = "ret" /\ Len(entries) >= 2
  /\ \E j, k \in DOMAIN readOrder :
       j < k /\ readOrder[k].hdr.id # 0 /\ readOrder[j].hdr.at > readOrder[k].hdr.at

Decodable(f) == f.ext = "md" /\ f.readable /\ f.fenced /\ f.yamlOk

\* C6: for an inbox directory with any mix of decodable and undecodable .md
\* files, list succeeds and returns exactly the decodable ones, each once.
C6_ListSkipsUndecodable ==
  (op = "list" /\ pc = "ret")
    => /\ result = "ok"
       /\ {e.path : e \in Range(entries)} = {f.name : f \in {g \in inbox : Decodable(g)}}
       /\ Len(entries) = Cardinality({g \in inbox : Decodable(g)})

\* C6 witness: list returned an entry from a directory that holds an .md file
\* it cannot decode.
C6_Witness ==
  /\ op = "list" /\ pc = "ret" /\ Len(entries) >= 1
  /\ \E f \in inbox : f.ext = "md" /\ ~Decodable(f)

\* C7: when accept(entry) returns Ok(dest), the suggested domain directory
\* exists, dest is <domain>/<slug>.md and holds a filed unit with the item's id,
\* the pending file of the entry is gone, and no listing contains the item.
C7_AcceptPostcondition ==
  [][AcceptReturnsOk =>
       /\ cur.item.dom \in dirs'
       /\ dest.dir = cur.item.dom
       /\ dest.name = slug_from_body(cur.item.body, now)
       /\ \E g \in store' : g.dir = dest.dir /\ g.name = dest.name /\ g.id = cur.item.id
       /\ ~file_exists(inbox', cur.path)
       /\ \A o \in Orders(inbox') :
            \A e \in Range(list(o).es) : e.item.id # cur.item.id]_vars

\* C7 witness: a reviewed entry was accepted and the call returned Ok.
C7_Witness ==
  /\ op = "review" /\ pc = "ret" /\ result = "ok" /\ dest # NoDest
  /\ \E g \in store : g.dir = dest.dir /\ g.name = dest.name

\* C8: when accept is run again on an item whose earlier accept stopped between
\* its write and its remove (a filed copy of the still pending item exists when
\* the call starts) and returns Ok, the store holds exactly one filed copy of
\* the item: the re-run derived the same file name and overwrote it.
C8_RerunLeavesOneCopy ==
  [][(AcceptReturnsOk /\ \E g \in pre.store : g.id = cur.item.id)
       => Cardinality({g \in store' : g.id = cur.item.id}) = 1]_vars

Max(S) == CHOOSE x \in S : \A y \in S : y <= x

RECURSIVE Descending(_)
\* the members of a set of numbers, largest first
Descending(S) == IF S = {} THEN <<>> ELSE <<Max(S)>> \o Descending(S \ {Max(S)})

IsPrefix(p, q) == Len(p) <= Len(q) /\ SubSeq(q, 1, Len(p)) = p

\* the pending files reject_by_indices is to delete, in the order it is to
ExpectedDeletions == [k \in DOMAIN Descending(Range(args)) |->
                        entries[Descending(Range(args))[k]].path]

\* C9: reject_by_indices with in-range indices, in any order and with or
\* without repeats, deletes the pending files at those positions of the listing
\* taken at the start of the call, each once, in descending index order, and
\* changes no other pending file and nothing under the domain directories.
C9_RejectDeletesExactlyTheIndexed ==
  (op = "reject_by_indices" /\ ~HasBadIndex(args, entries))
    => /\ store = pre.store /\ dirs = pre.dirs
       /\ IsPrefix(delLog, ExpectedDeletions)
       /\ inbox = {f \in pre.inbox : f.name \notin Range(delLog)}
       /\ (pc = "ret" /\ ~faulted) => (result = "ok" /\ delLog = ExpectedDeletions)

\* C9 witness: reject_by_indices given two indices in ascending order returned
\* Ok after two deletions.
C9_Witness ==
  /\ op = "reject_by_indices" /\ pc = "ret" /\ result = "ok"
  /\ Len(delLog) = 2 /\ Len(args) = 2 /\ args[1] < args[2]

\* the body as the codec is said to return it: a missing final newline added
WithFinalNewline(b) == IF b = <<>> \/ ends_with_nl(b) THEN b ELSE b \o <<NL>>

\* C10: parse(serialize(r)).body is r.body when r.body is empty or ends in a
\* newline and r.body followed by one newline otherwise; no other character of
\* the body, leading newlines included, is added, removed or changed.
C10_BodyRoundTrip ==
  phase = "parsed" => (parsed.ok /\ parsed.body = WithFinalNewline(unit.body))

\* the body with a missing final newline added; an empty body may stay empty
EndingInNewline(b) ==
  IF b = <<>> THEN {<<>>, <<NL>>} ELSE IF ends_with_nl(b) THEN {b} ELSE {b \o <<NL>>}

\* C11: for an item added with body B, the body list returns and the body
\* read_knowledge returns for the filed unit are both B when B ends in a newline
\* and B followed by one newline otherwise: no step adds a further newline.
C11_BodyThroughInbox ==
  /\ trip.step \in {"listed", "filed", "read"} => trip.listed \in EndingInNewline(trip.b)
  /\ trip.step = "read" => trip.readBack \in EndingInNewline(trip.b)

\* the first line of a text, none for the empty text
FirstLine(t) == IF Lines(t) = <<>> THEN <<"none">> ELSE Lines(t)[1]

\* a line equal to the fence follows the first line
FenceLineAfterFirst(t) == \E k \in 2..Len(Lines(t)) : Lines(t)[k] = Fence

\* a line starting with the fence follows the first line
FenceStartAfterFirst(t) == \E k \in 2..Len(Lines(t)) : starts_with(Lines(t)[k], Fence)

\* C12: parse returns MissingFrontmatter for every input whose first line is not
\* exactly the fence and for every input with an opening fence and no closing
\* fence line after it; with both fences present it never returns
\* MissingFrontmatter.
C12_MissingOrInvalid ==
  phase = "parsed" =>
    /\ FirstLine(text) # Fence => (~parsed.ok /\ parsed.err = "MissingFrontmatter")
    /\ (FirstLine(text) = Fence /\ ~FenceStartAfterFirst(text))
         => (~parsed.ok /\ parsed.err = "MissingFrontmatter")
    /\ (FirstLine(text) = Fence /\ FenceLineAfterFirst(text))
         => (parsed.ok \/ parsed.err = "InvalidFrontmatter")

\* the index of the first line after the first that starts with the fence
ClosingLine(L) ==
  CHOOSE k \in 2..Len(L) :
    starts_with(L[k], Fence) /\ \A j \in 2..(k - 1) : ~starts_with(L[j], Fence)

RECURSIVE DropEmpty(_)
\* lines without the empty ones at their start
DropEmpty(q) == IF q # <<>> /\ Head(q) = <<>> THEN DropEmpty(Tail(q)) ELSE q

\* header lines that are the fields of a record
HeaderDecodes(hdr) == \E m \in Metas : hdr = << <<"i", "d", ":", m>> >>

\* C13: for an input with an opening fence the header ends at the first later
\* line that starts with the fence: the header fields are decoded from the lines
\* between the two and from nothing else, and every line after the closing
\* fence, fence lines included, is returned in the body.
C13_FirstFenceCloses ==
  (phase = "parsed" /\ FirstLine(text) = Fence /\ FenceStartAfterFirst(text)) =>
    LET L == Lines(text)
        k == ClosingLine(L)
        hdr == SubSeq(L, 2, k - 1)
    IN /\ parsed.ok = HeaderDecodes(hdr)
       /\ parsed.ok => /\ hdr = << <<"i", "d", ":", parsed.meta>> >>
                       /\ DropEmpty(Lines(parsed.body)) = DropEmpty(SubSeq(L, k + 1, Len(L)))

\* C14: decoding a header without tags, related or confidence succeeds; tags and
\* related are then empty, confidence is 0.8 for a filed unit and 0.7 for an
\* inbox item.
C14_DecodeDefaults ==
  (probe.fn \in {"parse", "read_knowledge", "read_inbox_file"}) =>
    /\ probe.out.ok
    /\ Absent(probe.arg, "tags") => probe.out.tags = <<>>
    /\ Absent(probe.arg, "related") => probe.out.related = <<>>
    /\ Absent(probe.arg, "confidence") =>
         probe.out.confidence = (IF probe.fn = "read_inbox_file" THEN NewItemConfidence
                                 ELSE default_confidence)

\* char::to_lowercase on the characters the model uses
to_lowercase(c) == IF c = "É" THEN "é" ELSE to_ascii_lowercase(c)

RECURSIVE collapse_hyphens(_)
\* every run of hyphens made one hyphen
collapse_hyphens(s) ==
  IF Len(s) <= 1 THEN s
  ELSE IF s[1] = "-" /\ s[2] = "-" THEN collapse_hyphens(Tail(s))
  ELSE <<s[1]>> \o collapse_hyphens(Tail(s))

\* the slug as described: the first 60 characters of the first line lowercased,
\* runs of other characters made one hyphen, hyphens at both ends cut
DescribedSlug(body) ==
  LET line == Take(first_line(body), SlugMaxChars)
  IN trim_matches_hyphen(collapse_hyphens(
       [k \in 1..Len(line) |-> IF is_alphanumeric(line[k]) THEN to_lowercase(line[k]) ELSE "-"]))

HasAlnum(s) == \E k \in DOMAIN s : is_alphanumeric(s[k])

\* C15: for a body whose first line has an alphanumeric character, slug_from_body
\* returns the first 60 characters of that line lowercased, every run of
\* non-alphanumeric characters made one hyphen, hyphens at both ends cut; the
\* slug has no two adjacent hyphens.
C15_SlugCollapsesRuns ==
  (probe.fn = "slug_from_body" /\ Lines(probe.arg) # <<>> /\ HasAlnum(Lines(probe.arg)[1])) =>
    /\ probe.out = TextSlug(DescribedSlug(probe.arg))
    /\ \A k \in 1..(Len(probe.out.text) - 1) :
         ~(probe.out.text[k] = "-" /\ probe.out.text[k + 1] = "-")

\* a body that is empty or has whitespace only
Blank(body) == \A k \in DOMAIN body : is_whitespace(body[k])

\* C16: for a body that is blank, or whose first line has no alphanumeric
\* character, slug_from_body returns the fallback item-<timestamp>, never an
\* empty or a fixed name.
C16_BlankGivesTimestamp ==
  (probe.fn = "slug_from_body"
   /\ (Blank(probe.arg) \/ (Lines(probe.arg) # <<>> /\ ~HasAlnum(Lines(probe.arg)[1])))) =>
    /\ probe.out.fallback
    /\ probe.out.ts = FormatSeconds(now)

\* C18: the length stage rejects a text exactly when its length in characters
\* is below 20, texts with characters of more than one byte included.
C18_LengthInCharacters ==
  probe.fn = "length_check" => (~probe.out <=> Len(probe.arg) < MinLength)

HasWhitespace(t) == \E k \in DOMAIN t : is_whitespace(t[k])

\* the entropy of the characters of t is above 4.5: the sum over the distinct
\* characters of -count * log2(count / n), n the number of characters
CharEntropyAbove(t) ==
  t # <<>> /\ Len(t) * Log2Milli[Len(t)] - SumLog(t, {t[k] : k \in DOMAIN t})
               > MaxEntropyMilli * Len(t)

\* C19: the entropy stage passes every text with a whitespace character of any
\* kind; a text without whitespace is rejected exactly when its entropy is
\* above 4.5.
C19_WhitespacePasses ==
  probe.fn = "entropy_check" =>
    IF HasWhitespace(probe.arg) THEN probe.out
    ELSE (~probe.out <=> CharEntropyAbove(probe.arg))

\* the host is something, a dot, and the entry
DotSuffixed(h, d) == \E k \in DOMAIN h : h[k] = "." /\ From(h, k) = d

\* C20: the domain filter rejects a URL exactly when its host equals an entry
\* of the ignore list or ends with a dot followed by an entry; a host that only
\* shares a parent domain with an entry is kept.
C20_DomainFilterExact ==
  probe.fn = "domain_filter" =>
    (~probe.out <=> \E d \in probe.arg.ignore :
                      probe.arg.host = d \/ DotSuffixed(probe.arg.host, d))

\* C20 witness: docs.google.com was kept against an ignore list with
\* mail.google.com only.
C20_Witness ==
  /\ probe.fn = "domain_filter" /\ probe.out
  /\ probe.arg.host = <<"d", "o", "c", "s", ".", "g", "o", "o", "g", "l", "e", ".", "c", "o", "m">>
  /\ probe.arg.ignore = {<<"m", "a", "i", "l", ".", "g", "o", "o", "g", "l", "e", ".", "c", "o", "m">>}

\* the files of the inbox that make url a duplicate at time t
Duplicates(url, files, t) ==
  {f \in files : f.hdr.src = url /\ f.hdr.at > t - DedupWindow}

\* the first k stages in the order the pipeline is described
FirstStages(k) == SubSeq(<<"length", "entropy", "code", "url", "domain", "dedup">>, 1, k)

\* how many stages the text gets through before one rejects (6: none rejects)
StagesReached(t) ==
  LET url == extract_url(t)
  IN IF ~length_check(t) THEN 1
     ELSE IF ~entropy_check(t) THEN 2
     ELSE IF ~code_detection(t) THEN 3
     ELSE IF url = <<>> THEN 4
     ELSE IF ~domain_filter(url, default_ignore_domains) THEN 5
     ELSE 6

\* C17: run_filter_pipeline returns Some(url) exactly when the text passes
\* length, entropy, code detection, URL extraction, domain filter and dedup;
\* the stages are evaluated in that order up to the first that rejects and no
\* further; the inbox is listed only when the five earlier stages passed; no
\* inbox file is added, changed or removed.
C17_PipelineShortCircuits ==
  probe.fn = "pipeline" =>
    LET t == probe.arg
        url == extract_url(t)
        reached == StagesReached(t)
        dup == Duplicates(url, probe.pre, probe.at) # {}
    IN /\ probe.ran = FirstStages(reached)
       /\ probe.listed <=> reached = 6
       /\ (probe.out.kind = "some") <=> (reached = 6 /\ ~probe.io /\ ~dup)
       /\ probe.out.kind = "some" => probe.out.url = url
       /\ (probe.out.kind = "none") <=> (reached < 6 \/ (~probe.io /\ dup))
       /\ inbox = probe.pre

\* C17 witness: a text went through all six stages and dedup rejected it as a
\* duplicate of a pending item.
C17_Witness ==
  /\ probe.fn = "pipeline" /\ probe.out.kind = "none"
  /\ Len(probe.ran) = 6 /\ probe.listed
  /\ \E f \in inbox : f.hdr.src = extract_url(probe.arg)

\* C21: the dedup stage rejects a URL exactly when a pending item has that
\* string as its source and was captured in the closed interval from 24 hours
\* before the evaluation to the evaluation; an item exactly 24 hours old counts.
C21_DedupClosedWindow ==
  (probe.fn = "pipeline" /\ probe.listed /\ ~probe.io) =>
    ((probe.out.kind = "none") <=>
       \E f \in probe.pre : /\ f.hdr.src = extract_url(probe.arg)
                            /\ f.hdr.at >= probe.at - DedupWindow
                            /\ f.hdr.at <= probe.at)

\* the pending items of before the call that were staged for the URL of the text
StagedFor(t) == {f \in probe.pre : f.hdr.src = extract_url(t)}

\* C22: a URL the pipeline returned is staged as a pending item and stays
\* pending; a text with that URL evaluated less than 24 hours after the capture
\* gives None, and evaluated when more than 24 hours have passed since every
\* such capture gives Some(url) again.
C22_DuplicateThenFresh ==
  (/\ probe.fn = "pipeline" /\ ~probe.io /\ StagesReached(probe.arg) = 6
   /\ StagedFor(probe.arg) # {}) =>
    /\ (\E f \in StagedFor(probe.arg) : probe.at - f.hdr.at < DedupWindow)
         => probe.out.kind = "none"
    /\ (\A f \in StagedFor(probe.arg) : probe.at - f.hdr.at > DedupWindow)
         => probe.out = [kind |-> "some", url |-> extract_url(probe.arg)]

\* C22 witness: the URL was staged, more than 24 hours passed, and the text
\* with the same URL was returned again.
C22_Witness ==
  /\ probe.fn = "pipeline" /\ probe.out.kind = "some"
  /\ StagedFor(probe.arg) # {}
  /\ \A f \in StagedFor(probe.arg) : probe.at - f.hdr.at > DedupWindow

\* C23: the loop reads the running flag once per iteration; once the flag is
\* false no new iteration is begun, the iteration in progress is finished and
\* run returns Ok.
C23_StopsCooperatively ==
  /\ [](~mon.running => mon.begun = 0)
  /\ (~mon.running ~> (mon.pc = "returned" /\ mon.result = "ok"))

\* C23 witness: the flag was cleared after the pipeline of an iteration had
\* run; the iteration added its item and run returned.
C23_Witness ==
  /\ mon.pc = "returned" /\ mon.clearedAt = "match"
  /\ inbox # {}

\* the files that lie in the store: their real place is below the directory brain
FilesInStore == {f \in FsFiles : Len(f) >= 1 /\ f[1] = "brain"}

\* C24: the read_knowledge tool returns content only of a file that lies under
\* the store root; for a path that resolves outside the root (through "..",
\* an absolute path or a symbolic link) it returns an error and reads nothing.
C24_ReadStaysUnderRoot ==
  probe.fn = "read_knowledge" =>
    LET resolved == canonicalize(path_join(StoreRoot, probe.arg))
    IN /\ probe.out.ok => probe.out.read \in FilesInStore
       /\ probe.out.read # <<>> => probe.out.read = resolved.p
       /\ (resolved.ok /\ (resolved.p = <<>> \/ resolved.p[1] # "brain"))
            => (~probe.out.ok /\ probe.out.read = <<>>)

\* C24 witness: a path through the link that leaves the store named a file
\* that exists, and the tool refused it.
C24_Witness ==
  /\ probe.fn = "read_knowledge"
  /\ probe.arg = [abs |-> FALSE, comps |-> <<"out", "s.md">>]
  /\ probe.out.err = "path traversal denied"

\* the markdown files whose frontmatter is missing or does not decode
Malformed(files) == {f \in files : f.ext = "md" /\ f.readable /\ ~(f.fenced /\ f.yamlOk)}

\* C25: a markdown file whose frontmatter is missing or cannot be decoded is
\* absent for Inbox::list, list_knowledge, count_knowledge and read_all_units:
\* each gives the result it gives on the directory without that file.
C25_MalformedIsAbsent ==
  LET without == probe.arg \ Malformed(probe.arg)
  IN /\ probe.fn = "list" => \E order \in Orders(without) : probe.out = list(order).es
     /\ probe.fn = "list_knowledge" => probe.out = list_knowledge(without)
     /\ probe.fn = "count_knowledge" => probe.out = count_knowledge(without)
     /\ probe.fn = "read_all_units" => probe.out = read_all_units(without)

\* C26: a successful accept destroys no unit filed earlier: every unit in the
\* store before the accept is in the store after it, and the number of filed
\* units grows by one.
C26_AcceptKeepsEarlierUnits ==
  [][Cardinality(inbox') < Cardinality(inbox) =>
       /\ \A g \in store : \E h \in store' : h.id = g.id
       /\ Cardinality(store') = Cardinality(store) + 1]_vars

\* C27: for every suggested_domain a producer can supply, values with ".."
\* components and absolute paths included, the directory accept creates and
\* writes into lies under the store root.
C27_AcceptStaysUnderRoot ==
  probe.fn = "accept" => path_starts_with(probe.out, BrainRoot.comps)

\* C28: accept and reject of the same listed entry, interleaved at their
\* file-system calls: at most one of the two returns success, and an item
\* whose reject returned success is not left filed in a domain directory.
C28_AcceptRejectRace ==
  procs # <<>> =>
    /\ ~(procs[1].result = "ok" /\ procs[2].result = "ok")
    /\ (procs[1].at = "done" /\ procs[2].result = "ok")
         => ~(\E g \in store : g.id = procs[2].entry.item.id)

\* the pending items the monitor staged for one URL
SameSource(f, g) == f # g /\ f.hdr.src # NoSource /\ f.hdr.src = g.hdr.src

\* C29: with the monitor as the only writer, the inbox never holds two pending
\* items of one source URL captured less than 24 hours apart, whatever texts
\* the monitor sees; a poll that sees the text of the poll before does not run
\* the pipeline again.
C29_OnePendingPerUrl ==
  /\ [](\A f \in inbox : \A g \in inbox :
          SameSource(f, g) /\ f.hdr.at <= g.hdr.at => g.hdr.at - f.hdr.at >= DedupWindow)
  /\ [][(probe.fn = "poll" /\ probe'.fn = "pipeline") => probe'.arg # probe.last]_vars

\* C29 witness: the same URL is pending twice, the captures more than 24
\* hours apart.
C29_Witness ==
  \E f \in inbox : \E g \in inbox : SameSource(f, g) /\ g.hdr.at - f.hdr.at > DedupWindow

\* C30: the capture tools return as item_id the id of the item they have just
\* added, for every prior inbox content and also when another producer adds
\* an item between the add of the tool and its read-back listing.
C30_ReturnsOwnItemId ==
  (procs # <<>> /\ procs[1].op = "capture" /\ procs[1].at = "done")
    => procs[1].item_id = procs[1].added

====
